---------------------------- MODULE Spec2Model ----------------------------
(***************************************************************************)
(* A model of stone's python_client backend                               *)
(* (src/stone/backends/python_client.py): the generator that emits one    *)
(* Python method per route of an API description.                         *)
(*                                                                         *)
(* Text is a sequence of fragments (single characters where the code      *)
(* inspects characters, literal pieces of a format string elsewhere), so  *)
(* that '{}.{}'.format(a, b) is  a \o <<".">> \o b.  An optional value    *)
(* (Python None or a value) is a sequence of length at most one.          *)
(***************************************************************************)
EXTENDS Integers, Sequences, FiniteSets, TLC

VARIABLES
    auth_type,             \* self.args.auth_type: the -w option, optional text
    api,                   \* api.namespaces.values(): sequence of namespaces
    cur_namespace,         \* self.cur_namespace: optional namespace name
    supported_auth_types,  \* self.supported_auth_types: optional list of tokens
    ns_idx,                \* position of the loop over namespaces
    route_idx,             \* position of the loop over namespace.routes
    pc,                    \* "namespaces" | "routes" | "done" | "call"
    out,                   \* the methods emitted so far, in order
    call                   \* a direct application of one of the pure helpers

vars == <<auth_type, api, cur_namespace, supported_auth_types, ns_idx,
          route_idx, pc, out, call>>

---------------------------------------------------------------------------
(* Bounds of the model.                                                    *)

MaxStrLen == 3
MaxNameLen == 3
MaxVersion == 2
MaxFields == 2
MaxRoutes == 2
MaxDepth == 2

---------------------------------------------------------------------------
(* Text helpers.                                                           *)

None == <<>>
Some(v) == <<v>>
IsNone(o) == o = <<>>
Val(o) == o[1]

SeqsUpTo(S, n) == UNION {[1..k -> S] : k \in 0..n}

RECURSIVE Flatten(_)
Flatten(ss) == IF ss = <<>> THEN <<>> ELSE Head(ss) \o Flatten(Tail(ss))

RECURSIVE Join(_, _)
Join(ss, sep) ==
    IF ss = <<>> THEN <<>>
    ELSE IF Len(ss) = 1 THEN ss[1]
    ELSE ss[1] \o sep \o Join(Tail(ss), sep)

Contains(s, c) == \E i \in 1..Len(s) : s[i] = c

Range(s) == {s[i] : i \in 1..Len(s)}

\* Python truthiness of a str or list: non-empty.
Truthy(s) == s # <<>>

LowerAlpha ==
    <<"a", "b", "c", "d", "e", "f", "g", "h", "i", "j", "k", "l", "m",
      "n", "o", "p", "q", "r", "s", "t", "u", "v", "w", "x", "y", "z">>
UpperAlpha ==
    <<"A", "B", "C", "D", "E", "F", "G", "H", "I", "J", "K", "L", "M",
      "N", "O", "P", "Q", "R", "S", "T", "U", "V", "W", "X", "Y", "Z">>
UpperChars == Range(UpperAlpha)
SepChars == {"-", "_", "/"}
SpaceChars == {" "}

ToLower(c) ==
    IF c \in UpperChars
    THEN LowerAlpha[CHOOSE i \in 1..Len(UpperAlpha) : UpperAlpha[i] = c] ELSE c

ToUpper(c) ==
    IF c \in Range(LowerAlpha)
    THEN UpperAlpha[CHOOSE i \in 1..Len(LowerAlpha) : LowerAlpha[i] = c] ELSE c

IsUpper(c) == c \in UpperChars
IsLowerOrDigit(c) == c \notin UpperChars /\ c \notin SepChars /\ c \notin SpaceChars

\* str.lower()
Lower(s) == [i \in 1..Len(s) |-> ToLower(s[i])]

\* str.capitalize()
Capitalize(s) ==
    [i \in 1..Len(s) |-> IF i = 1 THEN ToUpper(s[i]) ELSE ToLower(s[i])]

\* str.strip(): whitespace removed at both ends
RECURSIVE LStrip(_)
LStrip(s) ==
    IF s # <<>> /\ Head(s) \in SpaceChars THEN LStrip(Tail(s)) ELSE s

RECURSIVE RStrip(_)
RStrip(s) ==
    IF s # <<>> /\ s[Len(s)] \in SpaceChars
    THEN RStrip(SubSeq(s, 1, Len(s) - 1)) ELSE s

Strip(s) == RStrip(LStrip(s))

\* str.split(sep) for a one-character separator: always at least one piece
RECURSIVE SplitFrom(_, _, _)
SplitFrom(s, sep, cur) ==
    IF s = <<>> THEN <<cur>>
    ELSE IF Head(s) = sep THEN <<cur>> \o SplitFrom(Tail(s), sep, <<>>)
    ELSE SplitFrom(Tail(s), sep, Append(cur, Head(s)))

Split(s, sep) == SplitFrom(s, sep, <<>>)

---------------------------------------------------------------------------
(* Naming helpers imported from stone.backends.helpers and                 *)
(* stone.backends.python_helpers (their code is not part of               *)
(* python_client.py).                                                      *)

RECURSIVE LowerRunEnd(_, _)
LowerRunEnd(w, i) ==
    IF i < Len(w) /\ IsLowerOrDigit(w[i + 1]) THEN LowerRunEnd(w, i + 1) ELSE i

RECURSIVE UpperRunEnd(_, _)
UpperRunEnd(w, i) ==
    IF i < Len(w) /\ IsUpper(w[i + 1]) THEN UpperRunEnd(w, i + 1) ELSE i

\* findall of  ^[a-z0-9]+|[A-Z][a-z0-9]+|[A-Z]+(?=[A-Z][a-z0-9])|[A-Z]+$
RECURSIVE FindWords(_, _)
FindWords(w, i) ==
    IF i > Len(w) THEN <<>>
    ELSE IF i = 1 /\ IsLowerOrDigit(w[1])
    THEN LET j == LowerRunEnd(w, 1)
         IN  <<SubSeq(w, 1, j)>> \o FindWords(w, j + 1)
    ELSE IF IsUpper(w[i]) /\ i < Len(w) /\ IsLowerOrDigit(w[i + 1])
    THEN LET j == LowerRunEnd(w, i + 1)
         IN  <<SubSeq(w, i, j)>> \o FindWords(w, j + 1)
    ELSE IF IsUpper(w[i])
    THEN LET j == UpperRunEnd(w, i)
         IN  IF j > i /\ j < Len(w) /\ IsLowerOrDigit(w[j + 1])
             THEN <<SubSeq(w, i, j - 1)>> \o FindWords(w, j)
             ELSE IF j = Len(w)
             THEN <<SubSeq(w, i, j)>>
             ELSE FindWords(w, i + 1)
    ELSE FindWords(w, i + 1)

\* re.split('[-_/]+', name)
RECURSIVE SplitSeps(_, _, _)
SplitSeps(s, cur, inSep) ==
    IF s = <<>> THEN <<cur>>
    ELSE IF Head(s) \in SepChars
    THEN IF inSep THEN SplitSeps(Tail(s), cur, TRUE)
         ELSE <<cur>> \o SplitSeps(Tail(s), <<>>, TRUE)
    ELSE SplitSeps(Tail(s), Append(cur, Head(s)), FALSE)

RECURSIVE WordsOf(_)
WordsOf(pieces) ==
    IF pieces = <<>> THEN <<>>
    ELSE LET vals == FindWords(Head(pieces), 1)
         IN  (IF vals # <<>> THEN vals ELSE <<Head(pieces)>>)
             \o WordsOf(Tail(pieces))

split_words(name) == WordsOf(SplitSeps(name, <<>>, FALSE))

fmt_underscores(name) ==
    LET ws == split_words(name)
    IN  Join([i \in 1..Len(ws) |-> Lower(ws[i])], <<"_">>)

fmt_pascal(name) ==
    LET ws == split_words(name)
    IN  Flatten([i \in 1..Len(ws) |-> Capitalize(ws[i])])

fmt_func(name, version) ==
    IF version > 1
    THEN fmt_underscores(name) \o <<"_v", ToString(version)>>
    ELSE fmt_underscores(name)

fmt_namespace(name) == name

fmt_class(name) == fmt_pascal(name)

fmt_var(name) == fmt_underscores(name)

---------------------------------------------------------------------------
(* The IR (stone.ir) as records.  A user-defined type is a Struct or a    *)
(* Union; it carries the name of the namespace that defines it.           *)

Void == [kind |-> "void"]
Primitive(n) == [kind |-> "primitive", name |-> n]
Nullable(t) == [kind |-> "nullable", data_type |-> t]
List(t) == [kind |-> "list", data_type |-> t]
Map(k, v) == [kind |-> "map", key_data_type |-> k, value_data_type |-> v]
\* fields: the type's own fields; all_fields: the parent's, then its own.
Struct(ns, n, parent_fields, own_fields, d) ==
    [kind |-> "struct", namespace |-> ns, name |-> n, fields |-> own_fields,
     all_fields |-> parent_fields \o own_fields, doc |-> d]
Union(ns, n, fs, d) ==
    [kind |-> "union", namespace |-> ns, name |-> n, fields |-> fs, doc |-> d]
Field(n, t, d, hd, dv) ==
    [name |-> n, data_type |-> t, doc |-> d, has_default |-> hd, default |-> dv]
TagRef(u, tag) == [kind |-> "tag_ref", union_data_type |-> u, tag_name |-> tag]
Literal(txt) == [kind |-> "literal", text |-> txt]

is_void_type(t) == t.kind = "void"
is_struct_type(t) == t.kind = "struct"
is_union_type(t) == t.kind = "union"
is_user_defined_type(t) == t.kind \in {"struct", "union"}
is_nullable_type(t) == t.kind = "nullable"
is_list_type(t) == t.kind = "list"
is_map_type(t) == t.kind = "map"
is_tag_ref(v) == v.kind = "tag_ref"

\* python_helpers.fmt_type: the Python name of a primitive, the class name
\* of a user-defined type.
fmt_type(t) ==
    IF is_user_defined_type(t) THEN fmt_class(t.name)
    ELSE IF t.kind = "primitive" THEN
        CASE t.name = "String" -> <<"str">>
          [] t.name = "Boolean" -> <<"bool">>
          [] t.name = "UInt64" -> <<"int">>
          [] OTHER -> <<"object">>
    ELSE IF is_list_type(t) THEN <<"list">>
    ELSE IF is_map_type(t) THEN <<"dict">>
    ELSE <<"object">>

class_name_for_data_type(t) == fmt_class(t.name)

\* python_helpers.fmt_obj: the Python literal of a default value.
fmt_obj(v) == v.text

---------------------------------------------------------------------------
(* Configuration (self.args) other than the auth-type filter.              *)

\* The backquote character (a TLA+ string cannot hold one).
BQ == "<backquote>"

types_package == <<"pkg">>
error_class_path == <<".", "exceptions", ".", "ApiError">>

\* DOCSTRING_CLOSE_RESPONSE
DOCSTRING_CLOSE_RESPONSE ==
    <<"If you do not consume the entire response body, then you must call close ...">>

\* the text  :class:BQ requests.models.Response BQ
RESPONSE_LABEL == <<":class:", BQ, "requests.models.Response", BQ>>

---------------------------------------------------------------------------
(* Emitted lines.  ind is the indentation scope the line was emitted in   *)
(* (with self.indent()); a blank line is an emit of the empty text.       *)

Emit(txt) == [k |-> "emit", t |-> txt, items |-> <<>>, ind |-> 0]
Blank == Emit(<<>>)
\* emit_wrapped_text(text)
Wrapped(txt) == [k |-> "wrapped", t |-> txt, items |-> <<>>, ind |-> 0]
\* generate_multiline_list(items, before): before(item, item, ...)
MultilineList(its, before) == [k |-> "list", t |-> before, items |-> its, ind |-> 0]
\* lines emitted inside  with self.indent():
Indent(lines) == [i \in 1..Len(lines) |-> [lines[i] EXCEPT !.ind = @ + 1]]

TRIPLE_QUOTE == <<"\"\"\"">>

---------------------------------------------------------------------------
(* _generate_python_value(namespace, value).  namespace is optional: the  *)
(* caller passes None for a field whose type is not user-defined, and     *)
(* namespace.name then raises.                                             *)

ATTRIBUTE_ERROR == <<"<AttributeError>">>

\* _generate_python_value naming the namespace of the TagRef's union type.
PythonValueOfUnionNamespace(namespace, value) ==
    IF is_tag_ref(value)
    THEN fmt_namespace(value.union_data_type.namespace.name) \o <<".">>
         \o class_name_for_data_type(value.union_data_type) \o <<".">>
         \o fmt_var(value.tag_name)
    ELSE fmt_obj(value)

_generate_python_value(namespace, value) ==
    IF is_tag_ref(value)
    THEN IF IsNone(namespace) THEN ATTRIBUTE_ERROR
         ELSE fmt_namespace(Val(namespace).name) \o <<".">>
              \o class_name_for_data_type(value.union_data_type) \o <<".">>
              \o fmt_var(value.tag_name)
    ELSE fmt_obj(value)

---------------------------------------------------------------------------
(* _format_type_in_doc(namespace, data_type)                               *)

\* The formatter with a Nullable wrapper left out of the text.
RECURSIVE FormatTypeNullableDropped(_, _)
FormatTypeNullableDropped(namespace, data_type) ==
    IF is_void_type(data_type) THEN <<"None">>
    ELSE IF is_user_defined_type(data_type)
    THEN <<":class:", BQ>> \o types_package \o <<".">> \o namespace.name
         \o <<".">> \o fmt_type(data_type) \o <<BQ>>
    ELSE IF is_nullable_type(data_type)
    THEN FormatTypeNullableDropped(namespace, data_type.data_type)
    ELSE IF is_list_type(data_type)
    THEN <<"List[">> \o FormatTypeNullableDropped(namespace, data_type.data_type)
         \o <<"]">>
    ELSE IF is_map_type(data_type)
    THEN <<"Map[">> \o FormatTypeNullableDropped(namespace, data_type.key_data_type)
         \o <<", ">> \o FormatTypeNullableDropped(namespace, data_type.value_data_type)
         \o <<"]">>
    ELSE fmt_type(data_type)

RECURSIVE _format_type_in_doc(_, _)
_format_type_in_doc(namespace, data_type) ==
    IF is_void_type(data_type) THEN <<"None">>
    ELSE IF is_user_defined_type(data_type)
    THEN <<":class:", BQ>> \o types_package \o <<".">> \o namespace.name
         \o <<".">> \o fmt_type(data_type) \o <<BQ>>
    ELSE IF is_nullable_type(data_type)
    THEN <<"Nullable[">> \o _format_type_in_doc(namespace, data_type.data_type)
         \o <<"]">>
    ELSE IF is_list_type(data_type)
    THEN <<"List[">> \o _format_type_in_doc(namespace, data_type.data_type)
         \o <<"]">>
    ELSE IF is_map_type(data_type)
    THEN <<"Map[">> \o _format_type_in_doc(namespace, data_type.key_data_type)
         \o <<", ">> \o _format_type_in_doc(namespace, data_type.value_data_type)
         \o <<"]">>
    ELSE fmt_type(data_type)

---------------------------------------------------------------------------
(* _docf(tag, val), with self.cur_namespace passed as cur.                 *)

VALUE_ERROR == <<"<ValueError>">>
RUNTIME_ERROR == <<"<RuntimeError>">>

Digits == <<"0", "1", "2", "3", "4", "5", "6", "7", "8", "9">>
IsDigit(c) == \E d \in 1..10 : Digits[d] = c
DigitVal(c) == (CHOOSE d \in 1..10 : Digits[d] = c) - 1

\* int(text) for a non-empty text of digits
RECURSIVE IntOf(_, _)
IntOf(s, acc) ==
    IF s = <<>> THEN acc ELSE IntOf(Tail(s), 10 * acc + DigitVal(Head(s)))

IsInt(s) == s # <<>> /\ \A i \in 1..Len(s) : IsDigit(s[i])

FirstIndex(s, c) == CHOOSE i \in 1..Len(s) : s[i] = c /\ \A j \in 1..(i - 1) : s[j] # c
LastIndex(s, c) == CHOOSE i \in 1..Len(s) : s[i] = c /\ \A j \in (i + 1)..Len(s) : s[j] # c

_docf(cur, tag, val) ==
    IF tag = "type"
    THEN LET fq_val == IF ~Contains(val, ".") THEN cur.name \o <<".">> \o val
                       ELSE val
         IN  <<":class:", BQ>> \o types_package \o <<".">> \o fq_val \o <<BQ>>
    ELSE IF tag = "route"
    THEN LET hasv == Contains(val, ":")
             name == IF hasv THEN SubSeq(val, 1, FirstIndex(val, ":") - 1) ELSE val
             vtxt == IF hasv THEN SubSeq(val, FirstIndex(val, ":") + 1, Len(val))
                     ELSE <<"1">>
         IN  IF ~IsInt(vtxt) THEN VALUE_ERROR
             ELSE IF Contains(name, ".")
             THEN <<":meth:", BQ>> \o fmt_func(name, IntOf(vtxt, 0)) \o <<BQ>>
             ELSE <<":meth:", BQ>> \o cur.name \o <<"_">>
                  \o fmt_func(name, IntOf(vtxt, 0)) \o <<BQ>>
    ELSE IF tag = "link"
    THEN IF ~Contains(val, " ") THEN VALUE_ERROR
         ELSE LET i == LastIndex(val, " ")
              IN  <<BQ>> \o SubSeq(val, 1, i - 1) \o <<" <">>
                  \o SubSeq(val, i + 1, Len(val)) \o <<">", BQ, "_">>
    ELSE IF tag = "val"
    THEN IF val = <<"n", "u", "l", "l">> THEN <<"None">>
         ELSE IF val = <<"t", "r", "u", "e">> \/ val = <<"f", "a", "l", "s", "e">>
         THEN <<BQ, BQ>> \o Capitalize(val) \o <<BQ, BQ>>
         ELSE val
    ELSE IF tag = "field"
    THEN <<BQ, BQ>> \o val \o <<BQ, BQ>>
    ELSE RUNTIME_ERROR

\* Backend.process_doc(doc, handler): every :tag:BQ val BQ marker of the prose
\* is replaced by handler(tag, val).  A doc is a sequence of pieces, each a
\* literal text or a marker.
DocText(txt) == [kind |-> "text", t |-> txt, tag |-> "", val |-> <<>>]
DocTag(tg, v) == [kind |-> "tag", t |-> <<>>, tag |-> tg, val |-> v]

process_doc(cur, doc) ==
    Flatten([i \in 1..Len(doc) |->
                IF doc[i].kind = "tag" THEN _docf(cur, doc[i].tag, doc[i].val)
                ELSE doc[i].t])

---------------------------------------------------------------------------
(* Routes.  attrs maps 'style' and 'auth' to optional texts.              *)

Attrs(style, auth) == [style |-> style, auth |-> auth]
Route(n, v, arg, res, err, d, at, dep) ==
    [name |-> n, version |-> v, arg_data_type |-> arg, result_data_type |-> res,
     error_data_type |-> err, doc |-> d, attrs |-> at, deprecated |-> dep]
Namespace(n, rs) == [name |-> n, routes |-> rs]

STYLE_UPLOAD == <<"upload">>
STYLE_DOWNLOAD == <<"download">>

---------------------------------------------------------------------------
(* _generate_route_method_decl                                             *)

\* FieldParam with has_default examined before the nullable type.
FieldParamDefaultFirst(field) ==
    IF field.has_default
    THEN LET ns == IF is_user_defined_type(field.data_type)
                   THEN Some(field.data_type.namespace) ELSE None
         IN  field.name \o <<"=">> \o _generate_python_value(ns, field.default)
    ELSE IF is_nullable_type(field.data_type)
    THEN field.name \o <<"=None">>
    ELSE field.name

\* The parameter of one struct field.
FieldParam(field) ==
    IF is_nullable_type(field.data_type)
    THEN field.name \o <<"=None">>
    ELSE IF field.has_default
    THEN LET ns == IF is_user_defined_type(field.data_type)
                   THEN Some(field.data_type.namespace) ELSE None
         IN  field.name \o <<"=">> \o _generate_python_value(ns, field.default)
    ELSE field.name

DeclArgs(arg_data_type, request_binary_body, extra_args) ==
    <<<<"self">>>>
    \o extra_args
    \o (IF request_binary_body THEN <<<<"f">>>> ELSE <<>>)
    \o (IF is_struct_type(arg_data_type)
        THEN [i \in 1..Len(arg_data_type.all_fields) |->
                 FieldParam(arg_data_type.all_fields[i])]
        ELSE IF is_union_type(arg_data_type) THEN <<<<"arg">>>>
        ELSE <<>>)

MethodName(namespace, route, method_name_suffix) ==
    fmt_underscores(namespace.name) \o <<"_">>
    \o fmt_func(route.name \o method_name_suffix, route.version)

_generate_route_method_decl(namespace, route, arg_data_type, request_binary_body, method_name_suffix, extra_args) ==
    MultilineList(DeclArgs(arg_data_type, request_binary_body, extra_args),
                  <<"def ">> \o MethodName(namespace, route, method_name_suffix))

---------------------------------------------------------------------------
(* _maybe_generate_deprecation_warning                                     *)

_maybe_generate_deprecation_warning(route) ==
    IF IsNone(route.deprecated) THEN <<>>
    ELSE LET msg == route.name \o <<" is deprecated.">>
                    \o (IF IsNone(Val(route.deprecated).by) THEN <<>>
                        ELSE <<" Use ">> \o Val(Val(route.deprecated).by)
                             \o <<".">>)
         IN  <<MultilineList(<<<<"'">> \o msg \o <<"'">>, <<"DeprecationWarning">>>>,
                             <<"warnings.warn">>)>>

---------------------------------------------------------------------------
(* _generate_docstring_for_func.  overview, extra_return_arg and footer   *)
(* are texts (empty when None); extra_request_args is a list of           *)
(* <<name, type name, doc>>.                                               *)

\* fields = [] if is_void_type(arg_data_type) else arg_data_type.fields
DocFields(arg_data_type) ==
    IF is_void_type(arg_data_type) THEN <<>> ELSE arg_data_type.fields

\* DocstringSkipped deciding on the overview alone.
DocstringSkippedWithoutOverview(arg_data_type, overview, extra_request_args) ==
    ~Truthy(overview)

\* if not fields and not overview: return
DocstringSkipped(arg_data_type, overview, extra_request_args) ==
    ~Truthy(DocFields(arg_data_type)) /\ ~Truthy(overview)

ExtraArgLine(e) ==
    IF Truthy(e[2])
    THEN Wrapped(<<":param ">> \o e[2] \o <<" ">> \o e[1] \o <<": ">> \o e[3])
    ELSE Wrapped(<<":param ">> \o e[1] \o <<": ">> \o e[3])

FieldDocLines(cur, namespace, field) ==
    IF Truthy(field.doc)
    THEN IF is_user_defined_type(field.data_type)
         THEN << Wrapped(<<":param ">> \o field.name \o <<": ">>
                         \o process_doc(cur, field.doc)),
                 Emit(<<":type ">> \o field.name \o <<": ">>
                      \o _format_type_in_doc(namespace, field.data_type)) >>
         ELSE << Wrapped(<<":param ">>
                         \o _format_type_in_doc(namespace, field.data_type)
                         \o <<" ">> \o field.name \o <<": ">>
                         \o process_doc(cur, field.doc)) >>
    ELSE << Wrapped(<<":type ">> \o field.name \o <<": ">>
                    \o _format_type_in_doc(namespace, field.data_type)) >>

ParamSection(cur, namespace, arg_data_type, overview, extra_request_args) ==
    LET fields == DocFields(arg_data_type)
    IN  IF Truthy(extra_request_args) \/ Truthy(fields)
        THEN (IF Truthy(overview) THEN <<Blank>> ELSE <<>>)
             \o [i \in 1..Len(extra_request_args) |->
                    ExtraArgLine(extra_request_args[i])]
             \o (IF is_struct_type(arg_data_type)
                 THEN Flatten([i \in 1..Len(fields) |->
                                  FieldDocLines(cur, namespace, fields[i])])
                 ELSE IF is_union_type(arg_data_type)
                 THEN (IF Truthy(arg_data_type.doc)
                       THEN <<Wrapped(<<":param arg: ">>
                                      \o process_doc(cur, arg_data_type.doc))>>
                       ELSE <<>>)
                      \o <<Emit(<<":type arg: ">>
                                \o _format_type_in_doc(namespace, arg_data_type))>>
                 ELSE <<>>)
        ELSE <<>>

\* NoParamSeparator emitting its blank line after every overview.
NoParamSeparatorAlways(arg_data_type, overview, extra_request_args) ==
    IF Truthy(overview) THEN <<Blank>> ELSE <<>>

\* if overview and not (extra_request_args or fields): self.emit()
NoParamSeparator(arg_data_type, overview, extra_request_args) ==
    IF Truthy(overview)
       /\ ~(Truthy(extra_request_args) \/ Truthy(DocFields(arg_data_type)))
    THEN <<Blank>> ELSE <<>>

ReturnSection(namespace, result_data_type, extra_return_arg) ==
    LET rtype == IF is_void_type(result_data_type) THEN <<"None">>
                 ELSE _format_type_in_doc(namespace, result_data_type)
    IN  IF Truthy(extra_return_arg)
        THEN <<MultilineList(<<rtype, extra_return_arg>>, <<":rtype: ">>)>>
        ELSE <<Emit(<<":rtype: ">> \o rtype)>>

\* error_class_path.rsplit('.', 1)[-1]
ErrorClassName == SubSeq(error_class_path, LastIndex(error_class_path, ".") + 1,
                         Len(error_class_path))

ErrorSection(namespace, error_data_type) ==
    IF ~is_void_type(error_data_type) /\ Truthy(error_data_type.fields)
    THEN << Emit(<<":raises: :class:", BQ>> \o error_class_path \o <<BQ>>),
            Blank,
            Emit(<<"If this raises, ">> \o ErrorClassName \o <<" will contain:">>) >>
         \o Indent(<<Emit(_format_type_in_doc(namespace, error_data_type))>>)
    ELSE <<>>

FooterSection(footer) ==
    IF Truthy(footer) THEN <<Blank, Wrapped(footer)>> ELSE <<>>

_generate_docstring_for_func(cur, namespace, arg_data_type, result_data_type, error_data_type, overview, extra_request_args, extra_return_arg, footer) ==
    IF DocstringSkipped(arg_data_type, overview, extra_request_args) THEN <<>>
    ELSE <<Emit(TRIPLE_QUOTE)>>
         \o (IF Truthy(overview) THEN <<Wrapped(overview)>> ELSE <<>>)
         \o ParamSection(cur, namespace, arg_data_type, overview, extra_request_args)
         \o NoParamSeparator(arg_data_type, overview, extra_request_args)
         \o ReturnSection(namespace, result_data_type, extra_return_arg)
         \o ErrorSection(namespace, error_data_type)
         \o FooterSection(footer)
         \o <<Emit(TRIPLE_QUOTE)>>

---------------------------------------------------------------------------
(* _generate_route_helper(namespace, route, download_to_file): the lines  *)
(* of one method.  The argument type of a route is Void, a Struct or a    *)
(* Union (anything else raises AssertionError, see ArgHandled).           *)

ArgHandled(route) ==
    is_void_type(route.arg_data_type) \/ is_struct_type(route.arg_data_type)
    \/ is_union_type(route.arg_data_type)

request_binary_body(route) == route.attrs.style = Some(STYLE_UPLOAD)
response_binary_body(route) == route.attrs.style = Some(STYLE_DOWNLOAD)

ExtraRequestArgs(route, download_to_file) ==
    IF request_binary_body(route)
    THEN << << <<"f">>, <<"bytes">>, <<"Contents to upload.">> >> >>
    ELSE IF download_to_file
    THEN << << <<"download_path">>, <<"str">>,
               <<"Path on local machine to save file.">> >> >>
    ELSE <<>>

ExtraReturnArg(route, download_to_file) ==
    IF response_binary_body(route) /\ ~download_to_file THEN RESPONSE_LABEL ELSE <<>>

Footer(route, download_to_file) ==
    IF response_binary_body(route) /\ ~download_to_file
    THEN DOCSTRING_CLOSE_RESPONSE ELSE <<>>

ArgConstruction(route) ==
    LET arg_data_type == route.arg_data_type
    IN  IF is_void_type(arg_data_type) THEN <<Emit(<<"arg = None">>)>>
        ELSE IF is_struct_type(arg_data_type)
        THEN <<MultilineList(
                   [i \in 1..Len(arg_data_type.all_fields) |->
                       arg_data_type.all_fields[i].name],
                   <<"arg = ">> \o fmt_namespace(arg_data_type.namespace.name)
                   \o <<".">> \o fmt_class(arg_data_type.name))>>
        ELSE <<>>

RequestCall(namespace, route) ==
    MultilineList(
        << fmt_namespace(namespace.name) \o <<".">>
               \o fmt_func(route.name, route.version),
           <<"'">> \o namespace.name \o <<"'">>,
           <<"arg">>,
           IF request_binary_body(route) THEN <<"f">> ELSE <<"None">> >>,
        <<"r = self.request">>)

ReturnLines(route, download_to_file) ==
    IF download_to_file
    THEN << Emit(<<"self._save_body_to_file(download_path, r[1])">>),
            IF is_void_type(route.result_data_type) THEN Emit(<<"return None">>)
            ELSE Emit(<<"return r[0]">>) >>
    ELSE IF is_void_type(route.result_data_type) THEN <<Emit(<<"return None">>)>>
    ELSE <<Emit(<<"return r">>)>>

_generate_route_helper(namespace, route, download_to_file) ==
    << IF download_to_file
       THEN _generate_route_method_decl(namespace, route, route.arg_data_type,
                request_binary_body(route), <<"_to_file">>, <<<<"download_path">>>>)
       ELSE _generate_route_method_decl(namespace, route, route.arg_data_type,
                request_binary_body(route), <<>>, <<>>) >>
    \o Indent(
         _generate_docstring_for_func(
             Val(cur_namespace), namespace, route.arg_data_type, route.result_data_type,
             route.error_data_type,
             IF Truthy(route.doc) THEN process_doc(Val(cur_namespace), route.doc)
             ELSE <<>>,
             ExtraRequestArgs(route, download_to_file),
             ExtraReturnArg(route, download_to_file),
             Footer(route, download_to_file))
         \o _maybe_generate_deprecation_warning(route)
         \o ArgConstruction(route)
         \o <<RequestCall(namespace, route)>>
         \o ReturnLines(route, download_to_file))
    \o <<Blank>>

---------------------------------------------------------------------------
(* _generate_routes: the filter of one route (the body of the loop over   *)
(* namespace.routes).                                                      *)

\* RouteMethods with the two variants of a download-style route exchanged.
RouteMethodsToFileFirst(namespace, route) ==
    (IF route.attrs.style = Some(STYLE_DOWNLOAD)
     THEN _generate_route_helper(namespace, route, TRUE) ELSE <<>>)
    \o _generate_route_helper(namespace, route, FALSE)

\* the standard method, and the _to_file one for a download-style route
RouteMethods(namespace, route) ==
    _generate_route_helper(namespace, route, FALSE)
    \o (IF route.attrs.style = Some(STYLE_DOWNLOAD)
        THEN _generate_route_helper(namespace, route, TRUE) ELSE <<>>)

\* [t.strip().lower() for t in text.split(',')]
AuthTokens(text) ==
    LET ps == Split(text, ",")
    IN  [i \in 1..Len(ps) |-> Lower(Strip(ps[i]))]

\* The loop over the whitelist without its break.
RECURSIVE WhitelistLoopNoBreak(_, _, _, _)
WhitelistLoopNoBreak(supported, route_auth_modes, namespace, route) ==
    IF supported = <<>> THEN <<>>
    ELSE (IF Head(supported) \in Range(route_auth_modes)
          THEN RouteMethods(namespace, route) ELSE <<>>)
         \o WhitelistLoopNoBreak(Tail(supported), route_auth_modes, namespace, route)

\* for base_auth_type in self.supported_auth_types: ... break
RECURSIVE WhitelistLoop(_, _, _, _)
WhitelistLoop(supported, route_auth_modes, namespace, route) ==
    IF supported = <<>> THEN <<>>
    ELSE IF Head(supported) \in Range(route_auth_modes)
    THEN RouteMethods(namespace, route)
    ELSE WhitelistLoop(Tail(supported), route_auth_modes, namespace, route)

GenerateRoute(supported, namespace, route) ==
    IF IsNone(supported) THEN RouteMethods(namespace, route)
    ELSE IF IsNone(route.attrs.auth) THEN <<>>
    ELSE WhitelistLoop(Val(supported), AuthTokens(Val(route.attrs.auth)),
                       namespace, route)

---------------------------------------------------------------------------
(* The generation run: _generate_route_methods and _generate_routes.      *)

NoCall == [fn |-> "none"]

\* _generate_route_methods, one namespace: a namespace without routes is
\* passed over; otherwise its header is emitted and _generate_routes starts
\* (cur_namespace, supported_auth_types).
EnterNamespace ==
    /\ pc = "namespaces"
    /\ ns_idx <= Len(api)
    /\ LET namespace == api[ns_idx]
       IN  IF Truthy(namespace.routes)
           THEN /\ out' = out \o
                      << Emit(<<"# ------------------------------------------">>),
                         Emit(<<"# Routes in ">> \o namespace.name \o <<" namespace">>),
                         Blank >>
                /\ cur_namespace' = Some(namespace)
                /\ supported_auth_types' =
                      IF ~IsNone(auth_type) THEN Some(AuthTokens(Val(auth_type)))
                      ELSE supported_auth_types
                /\ route_idx' = 1
                /\ pc' = "routes"
                /\ UNCHANGED ns_idx
           ELSE /\ ns_idx' = ns_idx + 1
                /\ UNCHANGED <<out, cur_namespace, supported_auth_types,
                               route_idx, pc>>
    /\ UNCHANGED <<auth_type, api, call>>

\* one iteration of  for route in namespace.routes
RouteStep ==
    /\ pc = "routes"
    /\ route_idx <= Len(api[ns_idx].routes)
    /\ LET namespace == api[ns_idx]
           route == namespace.routes[route_idx]
       IN  IF ArgHandled(route)
           THEN /\ out' = out \o GenerateRoute(supported_auth_types, namespace, route)
                /\ route_idx' = route_idx + 1
                /\ pc' = pc
           ELSE /\ pc' = "error"
                /\ UNCHANGED <<out, route_idx>>
    /\ UNCHANGED <<auth_type, api, cur_namespace, supported_auth_types, ns_idx, call>>

\* the loop over namespace.routes is over: back to the loop over namespaces
LeaveNamespace ==
    /\ pc = "routes"
    /\ route_idx > Len(api[ns_idx].routes)
    /\ ns_idx' = ns_idx + 1
    /\ pc' = "namespaces"
    /\ UNCHANGED <<auth_type, api, cur_namespace, supported_auth_types,
                   route_idx, out, call>>

Finish ==
    /\ pc = "namespaces"
    /\ ns_idx > Len(api)
    /\ pc' = "done"
    /\ UNCHANGED <<auth_type, api, cur_namespace, supported_auth_types, ns_idx,
                   route_idx, out, call>>

Next == EnterNamespace \/ RouteStep \/ LeaveNamespace \/ Finish

\* The state when _generate_route_methods starts.
Start(a, w) ==
    /\ api = a
    /\ auth_type = w
    /\ cur_namespace = None
    /\ supported_auth_types = None
    /\ ns_idx = 1
    /\ route_idx = 1
    /\ pc = "namespaces"
    /\ out = <<>>
    /\ call = NoCall

---------------------------------------------------------------------------
(* Inputs: the API descriptions the runs start from.                       *)

FILES == <<"f", "i", "l", "e", "s">>
COMMON == <<"c", "o", "m", "m", "o", "n">>
FilesNs == [name |-> FILES]
CommonNs == [name |-> COMMON]

String == Primitive("String")

FieldName(i) == IF i = 1 THEN <<"p", "a", "t", "h">> ELSE <<"p", ToString(i)>>

FieldDocs == {<<>>, <<DocText(<<"The field.">>)>>}

WriteMode ==
    Union(CommonNs, <<"w", "r", "i", "t", "e", "_", "m", "o", "d", "e">>,
          <<Field(<<"a", "d", "d">>, Void, <<>>, FALSE, Literal(<<"None">>))>>, <<>>)

NoDefault == Literal(<<"None">>)

\* The fields a struct may declare at position i.
FieldKinds(i) ==
    {Field(FieldName(i), String, d, FALSE, NoDefault) : d \in FieldDocs}
    \cup {Field(FieldName(i), WriteMode, d, FALSE, NoDefault) : d \in FieldDocs}
    \cup { Field(FieldName(i), String, <<>>, TRUE, Literal(<<"'x'">>)),
           Field(FieldName(i), Nullable(String), <<>>, FALSE, NoDefault),
           Field(FieldName(i), Nullable(String), <<>>, TRUE, Literal(<<"'x'">>)),
           Field(FieldName(i), WriteMode, <<>>, TRUE,
                 TagRef(WriteMode, <<"a", "d", "d">>)) }

FieldLists ==
    UNION {{fs \in [1..n -> UNION {FieldKinds(i) : i \in 1..n}] :
               \A i \in 1..n : fs[i] \in FieldKinds(i)} : n \in 0..MaxFields}

\* A struct argument: its first k fields (k at most 1) come from a parent.
ArgStructs ==
    UNION {{Struct(FilesNs, <<"a", "r", "g">>, SubSeq(fs, 1, k),
                   SubSeq(fs, k + 1, Len(fs)), <<>>) :
               k \in {0, 1} \cap (0..Len(fs))} : fs \in FieldLists}

ArgUnions ==
    {Union(FilesNs, <<"s", "e", "l">>, fs, d) :
        fs \in {<<>>, <<Field(<<"a", "l", "l">>, Void, <<>>, FALSE, NoDefault)>>},
        d \in {<<>>, <<DocText(<<"The selector.">>)>>}}

ArgTypes == {Void} \cup ArgStructs \cup ArgUnions

Metadata ==
    Struct(CommonNs, <<"m", "e", "t", "a">>, <<>>,
           <<Field(<<"i", "d">>, String, <<>>, FALSE, NoDefault)>>, <<>>)

ResultTypes == {Void, Metadata}

GetError(fs) == Union(FilesNs, <<"g", "e", "t", "_", "e", "r", "r", "o", "r">>, fs, <<>>)

\* Error type and deprecation marker, varied together.
ErrorAndDeprecation ==
    { <<Void, None>>,
      <<GetError(<<>>), None>>,
      <<GetError(<<>>), Some([by |-> None])>>,
      <<GetError(<<Field(<<"g", "o", "n", "e">>, Void, <<>>, FALSE, NoDefault)>>),
        Some([by |-> Some(<<"g", "e", "t", "2">>)])>> }

Styles == {None, Some(STYLE_UPLOAD), Some(STYLE_DOWNLOAD)}

GET == <<"g", "e", "t">>

RouteDocs == {<<>>, <<DocText(<<"See ">>), DocTag("route", GET)>>}

MethodRoutes ==
    {Route(GET, 1, arg, res, ed[1], d, Attrs(st, None), ed[2]) :
        arg \in ArgTypes, res \in ResultTypes, ed \in ErrorAndDeprecation,
        d \in RouteDocs, st \in Styles}

\* Several routes and namespaces: the order of the output.
PlainRoute(i, st, au) ==
    Route(<<"r", ToString(i)>>, 1, Void, Void, Void, <<>>, Attrs(st, au), None)

PlainRouteLists ==
    UNION {[1..n -> {PlainRoute(0, st, au) : st \in Styles, au \in {None, Some(<<"x">>)}}] :
              n \in 0..MaxRoutes}

Renamed(rs) == [i \in 1..Len(rs) |-> [rs[i] EXCEPT !.name = <<"r", ToString(i)>>]]

OrderApis ==
    {<<Namespace(FILES, Renamed(rs))>> \o tl :
        rs \in PlainRouteLists,
        tl \in { <<>>, <<Namespace(COMMON, <<>>)>>,
                 <<Namespace(COMMON, <<PlainRoute(1, Some(STYLE_DOWNLOAD), None)>>)>> }}

InitMethod == \E route \in MethodRoutes : Start(<<Namespace(FILES, <<route>>)>>, None)
InitOrder == \E a \in OrderApis : Start(a, None)

Init == InitMethod \/ InitOrder

Spec == Init /\ [][Next]_vars

---------------------------------------------------------------------------
(* Runs with an auth-type filter (-w): one route, every filter text and   *)
(* every auth attr over AuthChars up to MaxStrLen characters.             *)

AuthChars == {"X", ",", " "}
AuthTexts == SeqsUpTo(AuthChars, MaxStrLen)

AuthRoutes ==
    {Route(GET, 1, Void, Void, Void, <<>>, Attrs(st, au), None) :
        st \in {None, Some(STYLE_DOWNLOAD)},
        au \in {None} \cup {Some(t) : t \in AuthTexts}}

InitAuth ==
    \E route \in AuthRoutes, w \in {None} \cup {Some(t) : t \in AuthTexts} :
        Start(<<Namespace(FILES, <<route>>)>>, w)

SpecAuth == InitAuth /\ [][Next]_vars

---------------------------------------------------------------------------
(* Direct applications of the helpers, each to inputs drawn from bounded  *)
(* sets: the route reference of _docf beside the method declaration, the  *)
(* type formatter, the default-value renderer.                             *)

NameChars == {"a", "B", "_"}
Names == {n \in SeqsUpTo(NameChars, MaxNameLen) : n # <<>> /\ n[1] \notin SepChars}

\* Data types of wrapper depth at most d (a Map key is a String).
UserTypes ==
    {Metadata, WriteMode,
     Struct(FilesNs, <<"e", "n", "t", "r", "y">>, <<>>, <<>>, <<>>)}

RECURSIVE DocTypes(_)
DocTypes(d) ==
    IF d = 0 THEN {Void, String} \cup UserTypes
    ELSE LET inner == DocTypes(d - 1)
         IN  inner \cup {Nullable(t) : t \in {u \in inner : ~is_nullable_type(u)}}
             \cup {List(t) : t \in inner} \cup {Map(String, t) : t \in inner}

DefaultValues ==
    {Literal(<<"True">>), Literal(<<"'x'">>),
     TagRef(WriteMode, <<"a", "d", "d">>),
     TagRef(Union(FilesNs, <<"k", "i", "n", "d">>, <<>>, <<>>), <<"a", "B">>)}

\* The val of a route tag: name, or name:version.
RouteRefVal(name, version, explicit) ==
    IF explicit THEN name \o <<":", ToString(version)>> ELSE name

CallRouteRef ==
    /\ pc = "call"
    /\ call = NoCall
    /\ \E ns \in Names, rn \in Names, v \in 1..MaxVersion, explicit \in BOOLEAN :
          /\ (v > 1 => explicit)
          /\ LET namespace == Namespace(ns, <<>>)
                 route == Route(rn, v, Void, Void, Void, <<>>, Attrs(None, None), None)
             IN  call' = [fn |-> "route_ref", namespace |-> namespace, route |-> route,
                          explicit |-> explicit,
                          docf |-> _docf(namespace, "route", RouteRefVal(rn, v, explicit)),
                          decl |-> _generate_route_method_decl(
                                       namespace, route, Void, FALSE, <<>>, <<>>)]
    /\ UNCHANGED <<auth_type, api, cur_namespace, supported_auth_types, ns_idx,
                   route_idx, pc, out>>

CallFormatType ==
    /\ pc = "call"
    /\ call = NoCall
    /\ \E namespace \in {FilesNs, CommonNs}, t \in DocTypes(MaxDepth) :
          call' = [fn |-> "format_type", namespace |-> namespace, data_type |-> t,
                   result |-> _format_type_in_doc(namespace, t)]
    /\ UNCHANGED <<auth_type, api, cur_namespace, supported_auth_types, ns_idx,
                   route_idx, pc, out>>

CallPythonValue ==
    /\ pc = "call"
    /\ call = NoCall
    /\ \E namespace \in {None, Some(FilesNs), Some(CommonNs)}, v \in DefaultValues :
          call' = [fn |-> "python_value", namespace |-> namespace, value |-> v,
                   result |-> _generate_python_value(namespace, v)]
    /\ UNCHANGED <<auth_type, api, cur_namespace, supported_auth_types, ns_idx,
                   route_idx, pc, out>>

NextCall == CallRouteRef \/ CallFormatType \/ CallPythonValue

InitCall ==
    /\ api = <<>>
    /\ auth_type = None
    /\ cur_namespace = None
    /\ supported_auth_types = None
    /\ ns_idx = 1
    /\ route_idx = 1
    /\ pc = "call"
    /\ out = <<>>
    /\ call = NoCall

SpecCall == InitCall /\ [][NextCall]_vars

---------------------------------------------------------------------------
(* Reading the output: the emitted methods.  A method is a def line (the  *)
(* only list emitted outside an indentation scope) and the indented lines *)
(* after it.                                                               *)

IsDef(line) == line.k = "list" /\ line.ind = 0

RECURSIVE BodyEnd(_, _)
BodyEnd(o, j) == IF j < Len(o) /\ o[j + 1].ind >= 1 THEN BodyEnd(o, j + 1) ELSE j

MethodAt(o, d) == [decl |-> o[d], lines |-> SubSeq(o, d + 1, BodyEnd(o, d))]

RECURSIVE MethodsFrom(_, _)
MethodsFrom(o, i) ==
    IF i > Len(o) THEN <<>>
    ELSE IF IsDef(o[i]) THEN <<MethodAt(o, i)>> \o MethodsFrom(o, i + 1)
    ELSE MethodsFrom(o, i + 1)

Methods == MethodsFrom(out, 1)

MethodNameOf(m) == Tail(m.decl.t)
ParamsOf(m) == m.decl.items
IsQuote(line) == line.k = "emit" /\ line.t = TRIPLE_QUOTE
IsBlank(line) == line.k = "emit" /\ line.t = <<>>
HasDocstring(m) == m.lines # <<>> /\ IsQuote(m.lines[1])
\* the lines between the docstring's delimiters
DocstringOf(m) ==
    LET close == CHOOSE j \in 2..Len(m.lines) :
                    IsQuote(m.lines[j]) /\ \A i \in 2..(j - 1) : ~IsQuote(m.lines[i])
    IN  SubSeq(m.lines, 2, close - 1)
LastLineOf(m) == m.lines[Len(m.lines)]
StartsWith(line, frag) == line.t # <<>> /\ line.t[1] = frag
IsRtype(line) == StartsWith(line, ":rtype: ")
IsParamLine(line) == StartsWith(line, ":param ") \/ StartsWith(line, ":type ")
       \/ StartsWith(line, ":param arg: ") \/ StartsWith(line, ":type arg: ")

\* The variants a run without filter is to emit, in order:
\* <<namespace, route, download_to_file>>.
RouteVariants(namespace, route) ==
    <<<<namespace, route, FALSE>>>>
    \o (IF route.attrs.style = Some(STYLE_DOWNLOAD)
        THEN <<<<namespace, route, TRUE>>>> ELSE <<>>)

NamespaceVariants(namespace) ==
    Flatten([i \in 1..Len(namespace.routes) |->
                RouteVariants(namespace, namespace.routes[i])])

Variants == Flatten([n \in 1..Len(api) |-> NamespaceVariants(api[n])])

\* A finished run without filter, its methods beside the variants.
Unfiltered == pc = "done" /\ IsNone(auth_type)

MethodNames == [i \in 1..Len(Methods) |-> MethodNameOf(Methods[i])]

VariantName(v) == MethodName(v[1], v[2], IF v[3] THEN <<"_to_file">> ELSE <<>>)

VariantNames(vs) == [i \in 1..Len(vs) |-> VariantName(vs[i])]

TakesDownloadPath(m) == \E i \in 1..Len(ParamsOf(m)) : ParamsOf(m)[i] = <<"download_path">>

---------------------------------------------------------------------------
(* Claims.                                                                 *)

\* The route's auth tokens and the whitelist's share a token.
SharesAuthToken(route) ==
    /\ ~IsNone(route.attrs.auth)
    /\ Range(AuthTokens(Val(route.attrs.auth)))
          \cap Range(AuthTokens(Val(auth_type))) # {}

(* C1: with an auth-type whitelist configured, a route is emitted if and  *)
(* only if it has an auth attr whose stripped, lower-cased tokens share a *)
(* token with the whitelist's; an emitted route is emitted exactly once   *)
(* (the standard method, then the _to_file method only for a download     *)
(* style), however many whitelist entries match; a route without auth     *)
(* attr yields no method.                                                  *)
C1_WhitelistEmitsOnce ==
    (pc = "done" /\ ~IsNone(auth_type)) =>
        LET namespace == api[1]
            route == namespace.routes[1]
        IN  /\ MethodNames = IF SharesAuthToken(route)
                             THEN VariantNames(RouteVariants(namespace, route))
                             ELSE <<>>
            /\ \A i \in 1..Len(Methods) : TakesDownloadPath(Methods[i]) <=> (i = 2)

\* A download-style route that two entries of the whitelist match, emitted
\* as its two variants.
C1_Witness ==
    /\ pc = "done"
    /\ ~IsNone(supported_auth_types)
    /\ Len(Val(supported_auth_types)) >= 2
    /\ ~IsNone(api[1].routes[1].attrs.auth)
    /\ \A i \in 1..Len(Val(supported_auth_types)) :
          Val(supported_auth_types)[i] \in Range(AuthTokens(Val(api[1].routes[1].attrs.auth)))
    /\ api[1].routes[1].attrs.style = Some(STYLE_DOWNLOAD)
    /\ Len(Methods) = 2

(* C2: without auth-type filter every route of every namespace is emitted *)
(* whatever its auth attr: a download-style route as two variants, the    *)
(* standard one and the _to_file one right after it, every other route as *)
(* one; the methods follow the declaration order of the routes.           *)
C2_UnfilteredVariants ==
    Unfiltered =>
        /\ MethodNames = VariantNames(Variants)
        /\ \A i \in 1..Len(Methods) : TakesDownloadPath(Methods[i]) <=> Variants[i][3]

\* Two namespaces; the first declares a download-style route carrying an
\* auth attr and then a route of another style.
C2_Witness ==
    /\ Unfiltered
    /\ Len(api) = 2
    /\ Len(api[1].routes) >= 2
    /\ api[1].routes[1].attrs.style = Some(STYLE_DOWNLOAD)
    /\ ~IsNone(api[1].routes[1].attrs.auth)
    /\ api[1].routes[2].attrs.style # Some(STYLE_DOWNLOAD)
    /\ Len(api[2].routes) = 1
    /\ Len(Methods) = 5

\* The extra request parameter of a variant: f of an upload-style route,
\* else download_path of a _to_file variant.
ExtraParamName(v) ==
    IF v[2].attrs.style = Some(STYLE_UPLOAD) THEN <<<<"f">>>>
    ELSE IF v[3] THEN <<<<"download_path">>>> ELSE <<>>

NoFieldsContributed(arg) == is_void_type(arg) \/ arg.fields = <<>>

DocumentsParam(m, name) ==
    \E j \in 1..Len(DocstringOf(m)) :
        /\ StartsWith(DocstringOf(m)[j], ":param ")
        /\ \E k \in 1..(Len(DocstringOf(m)[j].t) - 1) :
              SubSeq(DocstringOf(m)[j].t, k, k + 1) = name \o <<": ">>

(* C3: the docstring composer produces no docstring exactly when there is *)
(* no overview text, the argument type contributes no fields and there    *)
(* are no extra request params; a method with an extra request param (f,  *)
(* download_path) gets a docstring with a line for that parameter even    *)
(* without doc text and with a Void argument.                              *)
C3_DocstringUnlessNothingToSay ==
    Unfiltered =>
        /\ Len(Methods) = Len(Variants)
        /\ \A i \in 1..Len(Variants) :
              LET v == Variants[i]
                  m == Methods[i]
              IN  /\ HasDocstring(m) <=>
                        ~(/\ ~Truthy(v[2].doc)
                          /\ NoFieldsContributed(v[2].arg_data_type)
                          /\ ExtraParamName(v) = <<>>)
                  /\ (HasDocstring(m) /\ ExtraParamName(v) # <<>>)
                        => DocumentsParam(m, ExtraParamName(v)[1])

\* The route of the get_metadata scenario: no doc, no deprecation, neither
\* upload nor download, a Struct argument with the one required,
\* undocumented string field path, a Void result, an error without fields.
IsMetadataScenario(route) ==
    /\ ~Truthy(route.doc)
    /\ IsNone(route.deprecated)
    /\ IsNone(route.attrs.style)
    /\ is_struct_type(route.arg_data_type)
    /\ Len(route.arg_data_type.all_fields) = 1
    /\ LET field == route.arg_data_type.all_fields[1]
       IN  /\ field.name = <<"p", "a", "t", "h">>
           /\ field.data_type = String
           /\ ~field.has_default
           /\ ~Truthy(field.doc)
    /\ is_void_type(route.result_data_type)
    /\ (is_void_type(route.error_data_type) \/ route.error_data_type.fields = <<>>)

OnlyRoute == api[1].routes[1]

SelfAndPath == << <<"self">>, <<"p", "a", "t", "h">> >>

ReturnsNone(m) == LastLineOf(m).k = "emit" /\ LastLineOf(m).t = <<"return None">>

\* C4 as stated: the method of the scenario has the parameters (self, path),
\* no docstring, and ends by returning None.
C4_ScenarioHasNoDocstring ==
    (Unfiltered /\ Len(api) = 1 /\ Len(api[1].routes) = 1
       /\ IsMetadataScenario(OnlyRoute)) =>
        /\ Len(Methods) = 1
        /\ ParamsOf(Methods[1]) = SelfAndPath
        /\ ~HasDocstring(Methods[1])
        /\ ReturnsNone(Methods[1])

(* C4, amended: when the struct itself declares the field path, the       *)
(* method of the scenario has the parameters (self, path), a docstring    *)
(* that holds the type line of path and the line :rtype: None and nothing *)
(* else, and a body that ends by returning None.                           *)
C4_ScenarioDocumentsPath ==
    (Unfiltered /\ Len(api) = 1 /\ Len(api[1].routes) = 1
       /\ IsMetadataScenario(OnlyRoute)
       /\ Len(OnlyRoute.arg_data_type.fields) = 1) =>
        /\ Len(Methods) = 1
        /\ ParamsOf(Methods[1]) = SelfAndPath
        /\ HasDocstring(Methods[1])
        /\ Len(DocstringOf(Methods[1])) = 2
        /\ SubSeq(DocstringOf(Methods[1])[1].t, 1, 6)
              = <<":type ", "p", "a", "t", "h", ": ">>
        /\ DocstringOf(Methods[1])[2].t = <<":rtype: ", "None">>
        /\ ReturnsNone(Methods[1])

C4_Witness ==
    /\ Unfiltered /\ Len(api) = 1 /\ Len(api[1].routes) = 1
    /\ IsMetadataScenario(OnlyRoute)
    /\ Len(OnlyRoute.arg_data_type.fields) = 1
    /\ Len(Methods) = 1
    /\ HasDocstring(Methods[1])

\* The parameter a struct field is to become.
ExpectedFieldParam(field) ==
    IF is_nullable_type(field.data_type) THEN field.name \o <<"=None">>
    ELSE IF field.has_default
    THEN field.name \o <<"=">>
         \o (IF is_tag_ref(field.default)
             THEN _generate_python_value(Some(field.data_type.namespace), field.default)
             ELSE field.default.text)
    ELSE field.name

ExpectedParams(v) ==
    LET arg == v[2].arg_data_type
    IN  <<<<"self">>>>
        \o (IF v[3] THEN <<<<"download_path">>>> ELSE <<>>)
        \o (IF v[2].attrs.style = Some(STYLE_UPLOAD) THEN <<<<"f">>>> ELSE <<>>)
        \o (IF is_struct_type(arg)
            THEN [j \in 1..Len(arg.all_fields) |-> ExpectedFieldParam(arg.all_fields[j])]
            ELSE IF is_union_type(arg) THEN <<<<"arg">>>> ELSE <<>>)

(* C5: the parameter list of every method is self, then the extra leading *)
(* args in order, then f if and only if the route is upload-style, then   *)
(* for a Struct argument one parameter per field in declaration order:    *)
(* name=None for a Nullable field (also when it has a default), else      *)
(* name=<rendered default> for a field with a default, else the bare      *)
(* name.  A Void argument adds nothing, a Union argument adds arg.        *)
C5_ParameterList ==
    Unfiltered =>
        /\ Len(Methods) = Len(Variants)
        /\ \A i \in 1..Len(Variants) : ParamsOf(Methods[i]) = ExpectedParams(Variants[i])

\* An upload-style route whose struct argument declares a Nullable field
\* with a default and then a field of another form.
C5_Witness ==
    /\ Unfiltered /\ Len(api) = 1 /\ Len(api[1].routes) = 1
    /\ OnlyRoute.attrs.style = Some(STYLE_UPLOAD)
    /\ is_struct_type(OnlyRoute.arg_data_type)
    /\ Len(OnlyRoute.arg_data_type.all_fields) = 2
    /\ is_nullable_type(OnlyRoute.arg_data_type.all_fields[1].data_type)
    /\ OnlyRoute.arg_data_type.all_fields[1].has_default
    /\ is_tag_ref(OnlyRoute.arg_data_type.all_fields[2].default)
    /\ Len(Methods) = 1
    /\ Len(ParamsOf(Methods[1])) = 4

\* The docstring names the extra return label / carries the footer.
HasReturnLabel(m) ==
    \E j \in 1..Len(DocstringOf(m)) :
        /\ DocstringOf(m)[j].k = "list"
        /\ DocstringOf(m)[j].t = <<":rtype: ">>
        /\ Len(DocstringOf(m)[j].items) = 2
        /\ DocstringOf(m)[j].items[2] = RESPONSE_LABEL

HasFooter(m) ==
    \E j \in 1..Len(DocstringOf(m)) :
        DocstringOf(m)[j].k = "wrapped" /\ DocstringOf(m)[j].t = DOCSTRING_CLOSE_RESPONSE

EndsWith(m, texts) ==
    /\ Len(m.lines) >= Len(texts)
    /\ \A j \in 1..Len(texts) :
          /\ m.lines[Len(m.lines) - Len(texts) + j].k = "emit"
          /\ m.lines[Len(m.lines) - Len(texts) + j].t = texts[j]

SAVE_BODY == <<"self._save_body_to_file(download_path, r[1])">>

(* C9: of a download-style route the standard variant has no extra        *)
(* leading parameter, a docstring with the extra return label and the     *)
(* close-response footer, and a body that returns the raw result r; the   *)
(* _to_file variant has the name suffix _to_file, download_path right     *)
(* after self, neither label nor footer, and a body that saves r[1] to    *)
(* download_path and then returns r[0] (None for a Void result).  No      *)
(* route of another style gets a _to_file variant.                         *)
C9_DownloadVariants ==
    Unfiltered =>
        /\ MethodNames = VariantNames(Variants)
        /\ \A i \in 1..Len(Variants) :
              LET v == Variants[i]
                  m == Methods[i]
              IN  /\ v[3] => v[2].attrs.style = Some(STYLE_DOWNLOAD)
                  /\ (v[2].attrs.style = Some(STYLE_DOWNLOAD) /\ ~v[3]) =>
                        /\ ~TakesDownloadPath(m)
                        /\ HasDocstring(m) => (HasReturnLabel(m) /\ HasFooter(m))
                        /\ EndsWith(m, <<<<"return r">>>>)
                  /\ v[3] =>
                        /\ Len(ParamsOf(m)) >= 2
                        /\ ParamsOf(m)[1] = <<"self">>
                        /\ ParamsOf(m)[2] = <<"download_path">>
                        /\ HasDocstring(m) => (~HasReturnLabel(m) /\ ~HasFooter(m))
                        /\ EndsWith(m, <<SAVE_BODY,
                                         IF is_void_type(v[2].result_data_type)
                                         THEN <<"return None">> ELSE <<"return r[0]">>>>)

\* The lines of a docstring before its return-type line.
RtypeIndex(ds) == CHOOSE j \in 1..Len(ds) : IsRtype(ds[j]) /\ \A i \in 1..(j - 1) : ~IsRtype(ds[i])
BlanksBeforeRtype(ds) == Cardinality({j \in 1..(RtypeIndex(ds) - 1) : IsBlank(ds[j])})

\* A struct or union field, or an extra request param, is documented.
ParamsFollow(v) ==
    \/ ExtraParamName(v) # <<>>
    \/ (~is_void_type(v[2].arg_data_type) /\ v[2].arg_data_type.fields # <<>>)

(* C10: when the docstring composer writes an overview, exactly one blank *)
(* separator line follows it: the one before the parameter documentation  *)
(* if a parameter (a field or an extra request param) follows, otherwise  *)
(* the one before the return-type line; never both, never neither.        *)
(* Without overview neither blank line is emitted.                         *)
C10_OneBlankAfterOverview ==
    Unfiltered =>
        /\ Len(Methods) = Len(Variants)
        /\ \A i \in 1..Len(Variants) :
              HasDocstring(Methods[i]) =>
                  LET v == Variants[i]
                      ds == DocstringOf(Methods[i])
                  IN  IF Truthy(v[2].doc)
                      THEN /\ ds[1].k = "wrapped"
                           /\ IsBlank(ds[2])
                           /\ BlanksBeforeRtype(ds) = 1
                           /\ IF ParamsFollow(v) THEN IsParamLine(ds[3])
                              ELSE RtypeIndex(ds) = 3
                      ELSE BlanksBeforeRtype(ds) = 0

\* An overview that no parameter follows: the blank line before the
\* return-type line.
C10_Witness ==
    /\ Unfiltered /\ Len(api) = 1 /\ Len(api[1].routes) = 1
    /\ Truthy(OnlyRoute.doc)
    /\ is_void_type(OnlyRoute.arg_data_type)
    /\ IsNone(OnlyRoute.attrs.style)
    /\ Len(Methods) = 1
    /\ HasDocstring(Methods[1])
    /\ IsBlank(DocstringOf(Methods[1])[2])
    /\ IsRtype(DocstringOf(Methods[1])[3])

(* C6: for every namespace name, route name and version >= 1, the method *)
(* name the route tag resolves to for a route of the current namespace    *)
(* (value name or name:version, the version 1 by default) is the method   *)
(* name the signature builder emits for that namespace, route and version *)
(* with an empty suffix.                                                   *)
C6_RouteRefIsDeclaredName ==
    call.fn = "route_ref" =>
        call.docf = <<":meth:", BQ>> \o Tail(call.decl.t) \o <<BQ>>

\* The reference of a data type with every user-defined type under the
\* namespace that defines it.
RECURSIVE TypeDocByDefiningNamespace(_)
TypeDocByDefiningNamespace(t) ==
    IF is_void_type(t) THEN <<"None">>
    ELSE IF is_user_defined_type(t)
    THEN <<":class:", BQ>> \o types_package \o <<".">> \o t.namespace.name
         \o <<".">> \o fmt_type(t) \o <<BQ>>
    ELSE IF is_nullable_type(t)
    THEN <<"Nullable[">> \o TypeDocByDefiningNamespace(t.data_type) \o <<"]">>
    ELSE IF is_list_type(t)
    THEN <<"List[">> \o TypeDocByDefiningNamespace(t.data_type) \o <<"]">>
    ELSE IF is_map_type(t)
    THEN <<"Map[">> \o TypeDocByDefiningNamespace(t.key_data_type) \o <<", ">>
         \o TypeDocByDefiningNamespace(t.value_data_type) \o <<"]">>
    ELSE fmt_type(t)

(* C7: when the type formatter renders a user-defined type, at any        *)
(* nesting depth, the namespace component of the class reference is the   *)
(* name of the namespace that defines the type, whatever namespace is     *)
(* passed as the formatter's context.                                      *)
C7_ClassRefNamesDefiningNamespace ==
    call.fn = "format_type" =>
        call.result = TypeDocByDefiningNamespace(call.data_type)

TagRefText(ns_name, value) ==
    ns_name \o <<".">> \o class_name_for_data_type(value.union_data_type)
    \o <<".">> \o fmt_var(value.tag_name)

\* C8 as stated: the namespace component of a rendered TagRef is the
\* namespace of the TagRef's union type, whatever namespace is passed.
C8_TagRefNamesUnionNamespace ==
    (call.fn = "python_value" /\ is_tag_ref(call.value)) =>
        call.result = TagRefText(call.value.union_data_type.namespace.name, call.value)

(* C8, amended: the namespace component of a rendered TagRef is the name  *)
(* of the namespace passed as the renderer's namespace argument, whatever *)
(* the namespace of the TagRef's union type; with no namespace passed the *)
(* rendering of a TagRef raises.                                           *)
C8_TagRefNamesPassedNamespace ==
    (call.fn = "python_value" /\ is_tag_ref(call.value)) =>
        IF IsNone(call.namespace) THEN call.result = ATTRIBUTE_ERROR
        ELSE call.result = TagRefText(Val(call.namespace).name, call.value)

\* A TagRef rendered under a namespace that is not its union type's.
C8_Witness ==
    /\ call.fn = "python_value"
    /\ is_tag_ref(call.value)
    /\ ~IsNone(call.namespace)
    /\ Val(call.namespace) # call.value.union_data_type.namespace
    /\ call.result # ATTRIBUTE_ERROR

\* The tokens of the whitelist are all the empty string.
OnlyEmptyTokens == \A i \in 1..Len(Val(supported_auth_types)) : Val(supported_auth_types)[i] = <<>>

(* C11: a whitelist token that is the empty string after stripping never  *)
(* matches: whatever the route's auth attr, a route is emitted under a    *)
(* whitelist only if a non-empty token of the whitelist is among the      *)
(* route's auth tokens, so a filter of empty tokens only emits no method. *)
C11_EmptyTokenNeverMatches ==
    (pc = "done" /\ ~IsNone(supported_auth_types)) =>
        /\ Methods # <<>> =>
              \E i \in 1..Len(Val(supported_auth_types)) :
                  /\ Val(supported_auth_types)[i] # <<>>
                  /\ SharesAuthToken(api[1].routes[1])
                  /\ Val(supported_auth_types)[i]
                        \in Range(AuthTokens(Val(api[1].routes[1].attrs.auth)))
        /\ OnlyEmptyTokens => Methods = <<>>

Max(a, b) == IF a >= b THEN a ELSE b

\* The structural wrapper depth of a data type tree.
RECURSIVE WrapperDepth(_)
WrapperDepth(t) ==
    IF is_nullable_type(t) \/ is_list_type(t) THEN 1 + WrapperDepth(t.data_type)
    ELSE IF is_map_type(t)
    THEN 1 + Max(WrapperDepth(t.key_data_type), WrapperDepth(t.value_data_type))
    ELSE 0

\* The wrappers of a data type tree, leaves erased.
RECURSIVE Wrappers(_)
Wrappers(t) ==
    IF is_nullable_type(t) THEN [w |-> "Nullable[", of |-> <<Wrappers(t.data_type)>>]
    ELSE IF is_list_type(t) THEN [w |-> "List[", of |-> <<Wrappers(t.data_type)>>]
    ELSE IF is_map_type(t)
    THEN [w |-> "Map[", of |-> <<Wrappers(t.key_data_type), Wrappers(t.value_data_type)>>]
    ELSE [w |-> "leaf", of |-> <<>>]

OpenBrackets == {"Nullable[", "List[", "Map["}
CLOSE_BRACKET == "]"
COMMA == ", "

\* The deepest bracket nesting of a text from position i on, cur brackets
\* being open there.
RECURSIVE BracketDepthFrom(_, _, _)
BracketDepthFrom(text, i, cur) ==
    IF i > Len(text) THEN cur
    ELSE IF text[i] \in OpenBrackets
    THEN Max(cur + 1, BracketDepthFrom(text, i + 1, cur + 1))
    ELSE IF text[i] = CLOSE_BRACKET THEN Max(cur, BracketDepthFrom(text, i + 1, cur - 1))
    ELSE Max(cur, BracketDepthFrom(text, i + 1, cur))

BracketDepth(text) == BracketDepthFrom(text, 1, 0)

\* The end of the leaf text that starts at position i.
RECURSIVE LeafEnd(_, _)
LeafEnd(text, i) ==
    IF i > Len(text) \/ text[i] \in OpenBrackets \cup {CLOSE_BRACKET, COMMA} THEN i
    ELSE LeafEnd(text, i + 1)

ParseFailure == [w |-> "unparsed", of |-> <<>>]

\* Reads one type reference of a text from position i: its wrappers and the
\* position after it.
RECURSIVE ReadWrappers(_, _)
ReadWrappers(text, i) ==
    IF i > Len(text) THEN [tree |-> ParseFailure, next |-> i]
    ELSE IF text[i] \in {"Nullable[", "List["}
    THEN LET inner == ReadWrappers(text, i + 1)
         IN  IF inner.next <= Len(text) /\ text[inner.next] = CLOSE_BRACKET
             THEN [tree |-> [w |-> text[i], of |-> <<inner.tree>>], next |-> inner.next + 1]
             ELSE [tree |-> ParseFailure, next |-> Len(text) + 1]
    ELSE IF text[i] = "Map["
    THEN LET key == ReadWrappers(text, i + 1)
         IN  IF key.next <= Len(text) /\ text[key.next] = COMMA
             THEN LET value == ReadWrappers(text, key.next + 1)
                  IN  IF value.next <= Len(text) /\ text[value.next] = CLOSE_BRACKET
                      THEN [tree |-> [w |-> "Map[", of |-> <<key.tree, value.tree>>],
                            next |-> value.next + 1]
                      ELSE [tree |-> ParseFailure, next |-> Len(text) + 1]
             ELSE [tree |-> ParseFailure, next |-> Len(text) + 1]
    ELSE IF LeafEnd(text, i) > i
    THEN [tree |-> [w |-> "leaf", of |-> <<>>], next |-> LeafEnd(text, i)]
    ELSE [tree |-> ParseFailure, next |-> Len(text) + 1]

(* C12: for every data type tree of finite depth built from Void,         *)
(* primitives, user-defined types, Nullable, List and Map the type        *)
(* formatter yields a text; the bracket nesting depth of the text is the  *)
(* structural wrapper depth of the tree, and read back the text has the   *)
(* wrappers Nullable[...], List[...] and Map[..., ...] of the tree in the *)
(* same nesting order, and nothing after them.                             *)
C12_BracketsMirrorWrappers ==
    call.fn = "format_type" =>
        /\ BracketDepth(call.result) = WrapperDepth(call.data_type)
        /\ ReadWrappers(call.result, 1) =
              [tree |-> Wrappers(call.data_type), next |-> Len(call.result) + 1]

\* A Map of Lists of a user-defined type, and a Nullable List, formatted.
C12_Witness ==
    /\ call.fn = "format_type"
    /\ \/ /\ is_map_type(call.data_type)
          /\ is_list_type(call.data_type.value_data_type)
          /\ is_user_defined_type(call.data_type.value_data_type.data_type)
       \/ /\ is_nullable_type(call.data_type)
          /\ is_list_type(call.data_type.data_type)
    /\ BracketDepth(call.result) >= 2

\* The name of a signature parameter: the text before its default.
RECURSIVE ParamNameOf(_)
ParamNameOf(param) ==
    IF param = <<>> \/ Head(param) \in {"=", "=None"} THEN <<>>
    ELSE <<Head(param)>> \o ParamNameOf(Tail(param))

\* The field-derived parameters of the method of variant v: those after
\* self and the extra request parameter.
SignatureFields(m, v) ==
    LET skip == 1 + Len(ExtraParamName(v))
    IN  [i \in 1..(Len(ParamsOf(m)) - skip) |-> ParamNameOf(ParamsOf(m)[i + skip])]

IsConstructorCall(line) == line.k = "list" /\ StartsWith(line, "arg = ")

\* The positional arguments of the argument-type constructor in the body.
ConstructorArgs(m) ==
    LET j == CHOOSE j \in 1..Len(m.lines) : IsConstructorCall(m.lines[j])
    IN  m.lines[j].items

\* The docstring lines (:param or :type) that document the parameter name.
FieldDocIndexes(m, name) ==
    IF ~HasDocstring(m) THEN {}
    ELSE {j \in 1..Len(DocstringOf(m)) :
             /\ IsParamLine(DocstringOf(m)[j])
             /\ \E k \in 1..(Len(DocstringOf(m)[j].t) - Len(name)) :
                   SubSeq(DocstringOf(m)[j].t, k, k + Len(name)) = name \o <<": ">>}

(* C13: for every route with a struct argument, the field-derived         *)
(* parameters of the signature, the positional arguments of the           *)
(* argument-type constructor in the body and the fields documented in the *)
(* docstring are the same list: every field that is a signature parameter *)
(* (inherited ones included) is passed to the constructor in the same     *)
(* order and has a :param or :type line in the docstring, in that order,  *)
(* so a method with a field-derived parameter has a docstring.            *)
C13_FieldsAgree ==
    Unfiltered =>
        \A i \in 1..Len(Methods) :
            is_struct_type(Variants[i][2].arg_data_type) =>
                LET m == Methods[i]
                    sig == SignatureFields(m, Variants[i])
                IN  /\ \E j \in 1..Len(m.lines) : IsConstructorCall(m.lines[j])
                    /\ ConstructorArgs(m) = sig
                    /\ \A a \in 1..Len(sig) : FieldDocIndexes(m, sig[a]) # {}
                    /\ \A a, b \in 1..Len(sig) :
                          a < b => \A x \in FieldDocIndexes(m, sig[a]),
                                      y \in FieldDocIndexes(m, sig[b]) : x < y
                    /\ sig # <<>> => HasDocstring(m)

===========================================================================
